---- MODULE Spec2Model ----
(***************************************************************************)
(* Model of vm_rightsizing.py: the linear pipeline of main()               *)
(*   authenticate_azure -> get_subscription -> get_virtual_machines ->     *)
(*   generate_recommendations -> report output                             *)
(* and the pure classifier is_underutilized.                               *)
(*                                                                         *)
(* Abstractions: CPU samples are integer percentages and the mean is an    *)
(* exact rational in lowest terms (the code uses IEEE doubles).  A machine *)
(* carries its name and power_state; resource_group, location, vm_size and *)
(* id are copied unchanged from the inventory to the report rows and are   *)
(* left out.  Names are unique within an inventory.  Only WARNING and      *)
(* ERROR log records are kept.                                             *)
(***************************************************************************)
EXTENDS Integers, Sequences, FiniteSets, TLC

(* ------------------------------ bounds --------------------------------- *)
\* largest inventory returned by the enumeration call
MaxVMs == 3
\* largest number of data points in one metrics response / classifier input
MaxSamples == 2

(* ------------------------- program constants --------------------------- *)
CPU_THRESHOLD == 30

(* ------------------------------ inputs --------------------------------- *)
VMNames == <<"vm1", "vm2", "vm3", "vm4", "vm5", "vm6">>
PowerStates == {"running", "stopped", "deallocated", "unknown"}
\* sample values the metrics source reports in the pipeline runs
MetricValues == {29, 31}
\* sample values and thresholds given to the classifier on its own
ClassifierValues == {0, 29, 30, 31, 100}
Thresholds == {0, 29, 30, 31}

SeqsUpTo(S, n) == UNION {[1..k -> S] : k \in 0..n}

\* one data point of a time series: data.average is a number or None
DataPoints ==
  {[present |-> TRUE, average |-> v] : v \in MetricValues}
    \cup {[present |-> FALSE, average |-> 0]}

\* what monitor_client.metrics.list does for one machine
MetricsResponses ==
  {[kind |-> "ok", data |-> d] : d \in SeqsUpTo(DataPoints, MaxSamples)}
    \cup {[kind |-> "HttpResponseError", data |-> <<>>],
          [kind |-> "OtherException", data |-> <<>>]}

\* what the enumeration call returns: machine i is named VMNames[i]
Inventories ==
  UNION {{[i \in 1..k |-> [name |-> VMNames[i], power_state |-> ps[i]]] :
            ps \in [1..k -> PowerStates]} : k \in 0..MaxVMs}

SubscriptionListings == {<<>>, <<"sub1">>, <<"sub1", "sub2">>}
\* get_subscription(credential, subscription_id=None)
SubscriptionArgs == {"None", "sub1", "sub9"}
\* what the user types at the prompt, as a sequence of characters
Choices == {<<"1">>, <<"2">>, <<"0">>, <<"3">>, <<"x">>, <<>>, <<"-", "1">>}

(* --------------------------- pure helpers ------------------------------ *)
RECURSIVE SumSeq(_)
SumSeq(s) == IF s = <<>> THEN 0 ELSE Head(s) + SumSeq(Tail(s))

RECURSIVE GCD(_, _)
GCD(a, b) == IF b = 0 THEN a ELSE GCD(b, a % b)

\* the quotient num/den as a value: a fraction in lowest terms
Quotient(num, den) ==
  LET g == GCD(num, den) IN [num |-> num \div g, den |-> den \div g]

Zero == Quotient(0, 1)

\* round(avg_cpu, 2), in hundredths, ties to even
Round2(q) ==
  LET n == q.num * 100
      f == n \div q.den
      r == n % q.den
  IN  IF 2 * r < q.den THEN f
      ELSE IF 2 * r > q.den THEN f + 1
      ELSE IF f % 2 = 0 THEN f ELSE f + 1

Digit(c) ==
  CASE c = "0" -> 0 [] c = "1" -> 1 [] c = "2" -> 2 [] c = "3" -> 3
    [] OTHER -> -1

RECURSIVE DigitsValue(_, _)
DigitsValue(s, acc) ==
  IF s = <<>> THEN acc ELSE DigitsValue(Tail(s), 10 * acc + Digit(Head(s)))

AllDigits(s) == s # <<>> /\ \A i \in 1..Len(s) : Digit(s[i]) >= 0

\* int(choice): ok = FALSE stands for ValueError
ParseInt(s) ==
  IF AllDigits(s) THEN [ok |-> TRUE, value |-> DigitsValue(s, 0)]
  ELSE IF s # <<>> /\ Head(s) = "-" /\ AllDigits(Tail(s))
    THEN [ok |-> TRUE, value |-> 0 - DigitsValue(Tail(s), 0)]
  ELSE [ok |-> FALSE, value |-> 0]

\* str.capitalize() on the power states
Capitalize(s) ==
  CASE s = "running" -> "Running"
    [] s = "stopped" -> "Stopped"
    [] s = "deallocated" -> "Deallocated"
    [] s = "unknown" -> "Unknown"
    [] OTHER -> s

Names(vms) == [i \in 1..Len(vms) |-> vms[i].name]

(* ------------------------------- state --------------------------------- *)
VARIABLES
  pc,                \* position in main(); "exited" once the process has ended
  exit_code,         \* process exit status, -1 while running
  exit_via,          \* "return" | "sys_exit" | "uncaught" | "none"
  stages,            \* pipeline stages entered so far, in order
  subscription_id,   \* main's subscription_id, "None" until resolved
  vm_list,           \* main's vm_list
  running_vms,       \* generate_recommendations' running_vms
  stopped_vms,       \* generate_recommendations' stopped_vms
  recommendations,   \* generate_recommendations' recommendations
  vms_without_data,  \* generate_recommendations' vms_without_data
  count,             \* running machines the loop has processed
  fetches,           \* metrics calls issued so far, with what each gave
  log,               \* WARNING and ERROR records emitted through logger
  out,               \* sections printed on standard output
  cpu_data,          \* cpu_data of the last classifier call
  threshold,         \* threshold of the last classifier call
  underutilized,     \* first component of the classifier's result
  avg_cpu            \* second component of the classifier's result

vars ==
  <<pc, exit_code, exit_via, stages, subscription_id, vm_list, running_vms,
    stopped_vms, recommendations, vms_without_data, count, fetches, log, out,
    cpu_data, threshold, underutilized, avg_cpu>>

pipelineVars ==
  <<exit_code, exit_via, stages, subscription_id, vm_list, running_vms,
    stopped_vms, recommendations, vms_without_data, count, fetches, log, out>>

classifierVars == <<cpu_data, threshold, underutilized, avg_cpu>>

LogRecord(level, msg, names) == [level |-> level, msg |-> msg, vms |-> names]

(* ----------------------------- functions ------------------------------- *)
\* variant: a None average is kept as a 0 sample
cpu_values_keep_none(data) ==
  [i \in 1..Len(data) |-> data[i].average]

\* the nested loops of get_cpu_utilization: keep the averages that are not None
RECURSIVE cpu_values(_)
cpu_values(data) ==
  IF data = <<>> THEN <<>>
  ELSE IF Head(data).present
    THEN <<Head(data).average>> \o cpu_values(Tail(data))
    ELSE cpu_values(Tail(data))

\* get_cpu_utilization: raised = an exception leaves the function
get_cpu_utilization(vm, resp) ==
  CASE resp.kind = "ok" ->
         [raised |-> FALSE, value |-> cpu_values(resp.data), warnings |-> <<>>]
    [] resp.kind = "HttpResponseError" ->
         [raised |-> FALSE, value |-> <<>>,
          warnings |-> <<LogRecord("WARNING", "Error retrieving metrics", <<vm.name>>)>>]
    [] OTHER ->
         [raised |-> TRUE, value |-> <<>>, warnings |-> <<>>]

\* variant: the comparison is <= instead of <
is_underutilized_le(data, thr) ==
  IF data = <<>> THEN [underutilized |-> FALSE, avg_cpu |-> Zero]
  ELSE LET avg == Quotient(SumSeq(data), Len(data))
       IN  [underutilized |-> avg.num <= thr * avg.den, avg_cpu |-> avg]

\* is_underutilized(cpu_data, threshold): (is_underutilized, average_cpu)
is_underutilized(data, thr) ==
  IF data = <<>> THEN [underutilized |-> FALSE, avg_cpu |-> Zero]
  ELSE LET avg == Quotient(SumSeq(data), Len(data))
       IN  [underutilized |-> avg.num < thr * avg.den, avg_cpu |-> avg]

\* variant: machines in an unknown state are analysed too
is_running_or_unknown(vm) == vm.power_state \in {"running", "unknown"}

is_running(vm) == vm.power_state = "running"

\* variant: deallocated machines are not listed
is_stopped_only(vm) == vm.power_state = "stopped"

is_stopped(vm) == vm.power_state \in {"stopped", "deallocated"}

(* ------------------------------ actions -------------------------------- *)
SysExit(records) ==
  /\ pc' = "exited"
  /\ exit_code' = 1
  /\ exit_via' = "sys_exit"
  /\ log' = log \o records

Uncaught ==
  /\ pc' = "exited"
  /\ exit_code' = 1
  /\ exit_via' = "uncaught"

authenticate_azure ==
  /\ pc = "authenticate_azure"
  /\ stages' = Append(stages, "authenticate")
  /\ \/ /\ pc' = "get_subscription"
        /\ UNCHANGED <<exit_code, exit_via, log>>
     \/ SysExit(<<LogRecord("ERROR", "Authentication failed", <<>>),
                  LogRecord("ERROR", "Please ensure you are logged in", <<>>)>>)
  /\ UNCHANGED <<subscription_id, vm_list, running_vms, stopped_vms,
                 recommendations, vms_without_data, count, fetches, out>>
  /\ UNCHANGED classifierVars

\* the subscription get_subscription returns, "None" when it exits instead
SelectSubscription(subscriptions, arg, choice) ==
  IF subscriptions = <<>> THEN [id |-> "None", error |-> "No subscriptions found"]
  ELSE IF arg # "None"
    THEN IF \E i \in 1..Len(subscriptions) : subscriptions[i] = arg
           THEN [id |-> arg, error |-> ""]
           ELSE [id |-> "None", error |-> "Subscription ID not found"]
  ELSE IF Len(subscriptions) = 1 THEN [id |-> subscriptions[1], error |-> ""]
  ELSE LET parsed == ParseInt(choice)
           index == parsed.value - 1
       IN  IF ~parsed.ok
             THEN [id |-> "None", error |-> "Invalid input, please enter a number"]
           ELSE IF 0 <= index /\ index < Len(subscriptions)
             THEN [id |-> subscriptions[index + 1], error |-> ""]
           ELSE [id |-> "None", error |-> "Invalid selection"]

get_subscription ==
  /\ pc = "get_subscription"
  /\ stages' = Append(stages, "subscription")
  /\ \/ \E subscriptions \in SubscriptionListings, arg \in SubscriptionArgs,
           choice \in Choices :
          LET r == SelectSubscription(subscriptions, arg, choice)
          IN  IF r.id # "None"
                THEN /\ subscription_id' = r.id
                     /\ pc' = "get_virtual_machines"
                     /\ UNCHANGED <<exit_code, exit_via, log>>
                ELSE /\ SysExit(<<LogRecord("ERROR", r.error, <<>>)>>)
                     /\ UNCHANGED subscription_id
     \/ /\ SysExit(<<LogRecord("ERROR", "Error listing subscriptions", <<>>)>>)
        /\ UNCHANGED subscription_id
  /\ UNCHANGED <<vm_list, running_vms, stopped_vms, recommendations,
                 vms_without_data, count, fetches, out>>
  /\ UNCHANGED classifierVars

get_virtual_machines ==
  /\ pc = "get_virtual_machines"
  /\ stages' = Append(stages, "inventory")
  /\ \/ \E inv \in Inventories :
          /\ vm_list' = inv
          /\ IF inv = <<>>
               THEN /\ pc' = "exited"
                    /\ exit_code' = 0
                    /\ exit_via' = "return"
                    /\ log' = Append(log, LogRecord("WARNING",
                                "No virtual machines found in the subscription", <<>>))
               ELSE /\ pc' = "monitor_client"
                    /\ UNCHANGED <<exit_code, exit_via, log>>
     \/ /\ SysExit(<<LogRecord("ERROR", "Error retrieving virtual machines", <<>>)>>)
        /\ UNCHANGED vm_list
  /\ UNCHANGED <<subscription_id, running_vms, stopped_vms, recommendations,
                 vms_without_data, count, fetches, out>>
  /\ UNCHANGED classifierVars

\* generate_recommendations, line 207: MonitorManagementClient(...) is built
\* outside any try block
create_monitor_client ==
  /\ pc = "monitor_client"
  /\ stages' = Append(stages, "analysis")
  /\ \/ /\ pc' = "partition"
        /\ UNCHANGED <<exit_code, exit_via>>
     \/ Uncaught
  /\ UNCHANGED <<subscription_id, vm_list, running_vms, stopped_vms,
                 recommendations, vms_without_data, count, fetches, log, out>>
  /\ UNCHANGED classifierVars

\* variant: the stopped filter keeps every machine that is not running
partition_stopped_rest ==
  /\ pc = "partition"
  /\ recommendations' = <<>>
  /\ vms_without_data' = <<>>
  /\ running_vms' = SelectSeq(vm_list, is_running)
  /\ stopped_vms' = SelectSeq(vm_list, LAMBDA vm : ~is_running(vm))
  /\ count' = 0
  /\ IF running_vms' = <<>>
       THEN /\ log' = Append(log, LogRecord("WARNING",
                        "No running VMs found to analyze", <<>>))
            /\ pc' = "report"
       ELSE /\ pc' = "loop"
            /\ UNCHANGED log
  /\ UNCHANGED <<exit_code, exit_via, stages, subscription_id, vm_list,
                 fetches, out>>
  /\ UNCHANGED classifierVars

\* generate_recommendations, lines 212-219: the two filters and the early return
partition ==
  /\ pc = "partition"
  /\ recommendations' = <<>>
  /\ vms_without_data' = <<>>
  /\ running_vms' = SelectSeq(vm_list, is_running)
  /\ stopped_vms' = SelectSeq(vm_list, is_stopped)
  /\ count' = 0
  /\ IF running_vms' = <<>>
       THEN /\ log' = Append(log, LogRecord("WARNING",
                        "No running VMs found to analyze", <<>>))
            /\ pc' = "report"
       ELSE /\ pc' = "loop"
            /\ UNCHANGED log
  /\ UNCHANGED <<exit_code, exit_via, stages, subscription_id, vm_list,
                 fetches, out>>
  /\ UNCHANGED classifierVars

\* data points of a response that carry a value (0 when the call fails)
Usable(resp) ==
  IF resp.kind = "ok"
    THEN Cardinality({i \in 1..Len(resp.data) : resp.data[i].present})
    ELSE 0

\* the row appended at lines 233-240; "Avg CPU (%)" in hundredths
RecommendationRow(vm, avg) ==
  [name |-> vm.name, avg_cpu |-> Round2(avg),
   recommendation |-> "Consider downsizing or deallocating"]

\* one iteration of the loop at lines 221-240, metrics call included
process_vm ==
  /\ pc = "loop"
  /\ count < Len(running_vms)
  /\ \E resp \in MetricsResponses :
       LET vm == running_vms[count + 1]
           got == get_cpu_utilization(vm, resp)
           res == is_underutilized(got.value, CPU_THRESHOLD)
       IN  /\ fetches' = Append(fetches,
                 [vm |-> vm, kind |-> resp.kind, usable |-> Usable(resp),
                  value |-> got.value])
           /\ IF got.raised
                THEN /\ Uncaught
                     /\ UNCHANGED <<log, vms_without_data, recommendations,
                                    count>>
                     /\ UNCHANGED classifierVars
                ELSE /\ log' = log \o got.warnings
                     /\ count' = count + 1
                     /\ UNCHANGED <<pc, exit_code, exit_via>>
                     /\ IF got.value = <<>>
                          THEN /\ vms_without_data' =
                                    Append(vms_without_data, vm.name)
                               /\ UNCHANGED recommendations
                               /\ UNCHANGED classifierVars
                          ELSE /\ cpu_data' = got.value
                               /\ threshold' = CPU_THRESHOLD
                               /\ underutilized' = res.underutilized
                               /\ avg_cpu' = res.avg_cpu
                               /\ recommendations' =
                                    IF res.underutilized
                                      THEN Append(recommendations,
                                             RecommendationRow(vm, res.avg_cpu))
                                      ELSE recommendations
                               /\ UNCHANGED vms_without_data
  /\ UNCHANGED <<stages, subscription_id, vm_list, running_vms, stopped_vms, out>>

\* variant: the summary is dropped
summary_warnings_none(names) == <<>>

\* lines 242-244: the summary warnings after the loop
summary_warnings(names) ==
  IF names # <<>>
    THEN <<LogRecord("WARNING", "No CPU metrics data available for running VMs", names),
           LogRecord("WARNING", "These VMs might not be collecting metrics", <<>>)>>
    ELSE <<>>

\* generate_recommendations, lines 242-247: after the last running machine
finish_loop ==
  /\ pc = "loop"
  /\ count = Len(running_vms)
  /\ log' = log \o summary_warnings(vms_without_data)
  /\ pc' = "report"
  /\ UNCHANGED <<exit_code, exit_via, stages, subscription_id, vm_list,
                 running_vms, stopped_vms, recommendations, vms_without_data,
                 count, fetches, out>>
  /\ UNCHANGED classifierVars

Section(kind, rows) == [kind |-> kind, rows |-> rows]

\* variant: the "all machines without data" test is lost
running_outcome_no_all(recs, running, nodata) ==
  IF recs # <<>> THEN Section("recommendations_table", recs)
  ELSE IF Len(running) = 0 THEN Section("no_running_vms", <<>>)
  ELSE IF nodata # <<>> THEN Section("partial_data", nodata)
  ELSE Section("all_properly_utilized", <<>>)

\* main, lines 279-304: the if/elif chain over the running set
running_outcome(recs, running, nodata) ==
  IF recs # <<>> THEN Section("recommendations_table", recs)
  ELSE IF Len(running) = 0 THEN Section("no_running_vms", <<>>)
  ELSE IF nodata # <<>> /\ Len(nodata) = Len(running)
    THEN Section("no_recommendations_could_be_generated", nodata)
  ELSE IF nodata # <<>> THEN Section("partial_data", nodata)
  ELSE Section("all_properly_utilized", <<>>)

StoppedRow(vm) ==
  [name |-> vm.name, status |-> Capitalize(vm.power_state),
   recommendation |-> "Consider deleting if no longer needed"]

\* main, lines 307-317
stopped_table(stopped) ==
  IF stopped # <<>>
    THEN <<Section("stopped_table",
                   [i \in 1..Len(stopped) |-> StoppedRow(stopped[i])])>>
    ELSE <<>>

\* main, lines 272-317, then the return that ends the process with status 0
report ==
  /\ pc = "report"
  /\ stages' = Append(stages, "report")
  /\ out' = out
       \o <<Section("status_summary",
                    <<Len(running_vms), Len(stopped_vms), Len(vm_list)>>)>>
       \o <<running_outcome(recommendations, running_vms, vms_without_data)>>
       \o stopped_table(stopped_vms)
  /\ pc' = "exited"
  /\ exit_code' = 0
  /\ exit_via' = "return"
  /\ UNCHANGED <<subscription_id, vm_list, running_vms, stopped_vms,
                 recommendations, vms_without_data, count, fetches, log>>
  /\ UNCHANGED classifierVars

Init ==
  /\ pc = "authenticate_azure"
  /\ exit_code = -1
  /\ exit_via = "none"
  /\ stages = <<>>
  /\ subscription_id = "None"
  /\ vm_list = <<>>
  /\ running_vms = <<>>
  /\ stopped_vms = <<>>
  /\ recommendations = <<>>
  /\ vms_without_data = <<>>
  /\ count = 0
  /\ fetches = <<>>
  /\ log = <<>>
  /\ out = <<>>
  /\ cpu_data = <<>>
  /\ threshold = CPU_THRESHOLD
  /\ underutilized = FALSE
  /\ avg_cpu = Zero

Next ==
  \/ authenticate_azure
  \/ get_subscription
  \/ get_virtual_machines
  \/ create_monitor_client
  \/ partition
  \/ process_vm
  \/ finish_loop
  \/ report

Spec == Init /\ [][Next]_vars

(* ------------------- the classifier called on its own ------------------ *)
InitClassifier ==
  /\ pc = "is_underutilized"
  /\ cpu_data \in SeqsUpTo(ClassifierValues, MaxSamples)
  /\ threshold \in Thresholds
  /\ underutilized = FALSE
  /\ avg_cpu = Zero
  /\ exit_code = -1
  /\ exit_via = "none"
  /\ stages = <<>>
  /\ subscription_id = "None"
  /\ vm_list = <<>>
  /\ running_vms = <<>>
  /\ stopped_vms = <<>>
  /\ recommendations = <<>>
  /\ vms_without_data = <<>>
  /\ count = 0
  /\ fetches = <<>>
  /\ log = <<>>
  /\ out = <<>>

call_is_underutilized ==
  /\ pc = "is_underutilized"
  /\ LET res == is_underutilized(cpu_data, threshold)
     IN  /\ underutilized' = res.underutilized
         /\ avg_cpu' = res.avg_cpu
  /\ pc' = "returned"
  /\ UNCHANGED <<cpu_data, threshold>>
  /\ UNCHANGED pipelineVars

NextClassifier == call_is_underutilized

SpecClassifier == InitClassifier /\ [][NextClassifier]_vars

(* ------------------------------ properties ----------------------------- *)
Range(s) == {s[i] : i \in 1..Len(s)}

Idx(s) == 1..Len(s)

\* position of the machine called n in the inventory
Pos(n) == CHOOSE j \in Idx(vm_list) : vm_list[j].name = n

\* a sequence of names lists distinct machines in inventory order
InInventoryOrder(names) ==
  /\ \A i \in Idx(names) : \E j \in Idx(vm_list) : vm_list[j].name = names[i]
  /\ \A a, b \in Idx(names) : a < b => Pos(names[a]) < Pos(names[b])

RunningIdx == {j \in Idx(vm_list) : vm_list[j].power_state = "running"}

StoppedIdx ==
  {j \in Idx(vm_list) : vm_list[j].power_state \in {"stopped", "deallocated"}}

\* main printed its report and returned
Reported == pc = "exited" /\ exit_via = "return" /\ vm_list # <<>>

\* generate_recommendations has returned
LoopDone == pc = "report" \/ Reported

\* the two filters of generate_recommendations have run
Partitioned == pc = "loop" \/ LoopDone \/ (pc = "exited" /\ fetches # <<>>)

BelowThreshold(values) ==
  values # <<>> /\ SumSeq(values) < CPU_THRESHOLD * Len(values)

\* the metrics calls issued for the machine called n
FetchesOf(n) == {k \in Idx(fetches) : fetches[k].vm.name = n}

RecsOf(n) == {i \in Idx(recommendations) : recommendations[i].name = n}

Sections(kind) == {i \in Idx(out) : out[i].kind = kind}

\* C1: for a non-empty sample list and any threshold, is_underutilized says
\* underutilized exactly when the arithmetic mean is strictly below the
\* threshold; a mean equal to the threshold is not underutilized.
C1_StrictlyBelowMean ==
  (pc = "returned" /\ cpu_data # <<>>) =>
    /\ underutilized <=> (SumSeq(cpu_data) < threshold * Len(cpu_data))
    /\ avg_cpu.num * Len(cpu_data) = SumSeq(cpu_data) * avg_cpu.den
    /\ (SumSeq(cpu_data) = threshold * Len(cpu_data)) => ~underutilized

C1_Witness ==
  /\ pc = "returned"
  /\ cpu_data = <<29, 31>>
  /\ threshold = 30
  /\ ~underutilized

\* C2 (as claimed): for an empty series the returned average is a "no data"
\* signal that is never the value 0.0.
C2_EmptyIsNotZero ==
  (pc = "returned" /\ cpu_data = <<>>) => avg_cpu # Zero

\* C3: every recommendation belongs to a running machine whose fetched series
\* was non-empty with a mean strictly below the threshold; once the loop has
\* finished every such machine has exactly one recommendation.
C3_RecommendationsExact ==
  /\ \A i \in Idx(recommendations) :
       \E j \in RunningIdx :
         /\ vm_list[j].name = recommendations[i].name
         /\ \E k \in FetchesOf(vm_list[j].name) : BelowThreshold(fetches[k].value)
  /\ LoopDone =>
       \A j \in RunningIdx :
         (\E k \in FetchesOf(vm_list[j].name) : BelowThreshold(fetches[k].value))
           => Cardinality(RecsOf(vm_list[j].name)) = 1

C3_Witness ==
  /\ LoopDone
  /\ Len(recommendations) >= 1
  /\ \E k \in Idx(fetches) :
       /\ fetches[k].value # <<>>
       /\ ~BelowThreshold(fetches[k].value)
       /\ RecsOf(fetches[k].vm.name) = {}
  /\ \E j \in Idx(vm_list) : vm_list[j].power_state = "unknown"

\* C4: whenever the report is printed every stopped or deallocated machine has
\* a delete-candidate row in the stopped-machine table, also after the early
\* return without running machines; no metrics call is ever issued for one.
C4_StoppedAlwaysListed ==
  /\ \A k \in Idx(fetches) : \A j \in StoppedIdx :
       vm_list[j].name # fetches[k].vm.name
  /\ Reported =>
       \A j \in StoppedIdx :
         \E i \in Sections("stopped_table") :
           \E r \in Idx(out[i].rows) :
             /\ out[i].rows[r].name = vm_list[j].name
             /\ out[i].rows[r].recommendation =
                  "Consider deleting if no longer needed"

C4_Witness ==
  /\ Reported
  /\ RunningIdx = {}
  /\ fetches = <<>>
  /\ \E j, k \in StoppedIdx :
       vm_list[j].power_state = "stopped" /\ vm_list[k].power_state = "deallocated"

\* C5 (as claimed): any exception of a metrics call is caught, the machine is
\* recorded as having no data and the run is not aborted.
C5_AnyFetchFailureCaught ==
  \A k \in Idx(fetches) :
    fetches[k].kind # "ok" =>
      /\ exit_via # "uncaught"
      /\ fetches[k].vm.name \in Range(vms_without_data)

\* C6: the partition is total, non-overlapping and order-preserving: a machine
\* is in running exactly when its state is running, in stopped exactly when
\* its state is stopped or deallocated, never in both; each subset keeps the
\* inventory order; the printed total counts every machine.
C6_Partition ==
  /\ Partitioned =>
       /\ \A j \in Idx(vm_list) :
            LET inR == vm_list[j] \in Range(running_vms)
                inS == vm_list[j] \in Range(stopped_vms)
            IN  /\ inR <=> vm_list[j].power_state = "running"
                /\ inS <=> vm_list[j].power_state \in {"stopped", "deallocated"}
                /\ ~(inR /\ inS)
       /\ Range(running_vms) \cup Range(stopped_vms) \subseteq Range(vm_list)
       /\ InInventoryOrder(Names(running_vms))
       /\ InInventoryOrder(Names(stopped_vms))
  /\ Reported =>
       \A i \in Sections("status_summary") :
         out[i].rows = <<Cardinality(RunningIdx), Cardinality(StoppedIdx),
                         Len(vm_list)>>

C6_Witness ==
  /\ Reported
  /\ Len(running_vms) = 2
  /\ Len(stopped_vms) = 0
  /\ Len(vm_list) = 3
  /\ vm_list[2].power_state = "unknown"

\* C7 (as claimed): a run ends with status 0 by normal completion or with
\* status 1 through a handled fatal path, and after a fatal condition no later
\* stage runs.
C7_ExitOnlyHandled ==
  pc = "exited" =>
    \/ exit_code = 0 /\ exit_via = "return"
    \/ exit_code = 1 /\ exit_via = "sys_exit" /\ "report" \notin Range(stages)

PerMachineWarnings ==
  {i \in Idx(log) : log[i].level = "WARNING"
                    /\ log[i].msg = "Error retrieving metrics"}

SummaryWarnings ==
  {i \in Idx(log) : log[i].level = "WARNING"
     /\ log[i].msg = "No CPU metrics data available for running VMs"}

\* metrics calls that ended in the HttpResponseError handler
FailedFetches == {k \in Idx(fetches) : fetches[k].kind = "HttpResponseError"}

\* C8 (as claimed): warnings that name machines are one summary, issued after
\* the loop; no warning is emitted for a single failing machine.
C8_OnlySummaryWarning ==
  \A i \in Idx(log) :
    (log[i].level = "WARNING" /\ log[i].vms # <<>>) =>
      /\ i \in SummaryWarnings
      /\ LoopDone

\* C8 (amended): each failing metrics call logs its own warning naming the
\* machine when it fails; when the loop completes with machines without data
\* one summary warning names all of them, failing ones included, and it is
\* issued once, after the last machine and after every per-machine warning;
\* no summary is issued before the loop has finished.
C8_SummaryOnceAfterLoop ==
  /\ Cardinality(SummaryWarnings) <= 1
  /\ SummaryWarnings # {} => LoopDone
  /\ \A k \in FailedFetches :
       Cardinality({i \in PerMachineWarnings :
                      log[i].vms = <<fetches[k].vm.name>>}) = 1
  /\ Cardinality(PerMachineWarnings) = Cardinality(FailedFetches)
  /\ (LoopDone /\ FailedFetches # {}) =>
       /\ Cardinality(SummaryWarnings) = 1
       /\ \A i \in SummaryWarnings :
            /\ \A k \in FailedFetches : fetches[k].vm.name \in Range(log[i].vms)
            /\ \A w \in PerMachineWarnings : w < i

C8_Witness ==
  /\ LoopDone
  /\ Cardinality(FailedFetches) >= 2
  /\ Cardinality(SummaryWarnings) = 1
  /\ \E k \in Idx(fetches) : fetches[k].kind = "ok" /\ fetches[k].value # <<>>

RunningOutcomeKinds ==
  {"recommendations_table", "no_running_vms",
   "no_recommendations_could_be_generated", "partial_data",
   "all_properly_utilized"}

OutcomeSections == {i \in Idx(out) : out[i].kind \in RunningOutcomeKinds}

\* running machines whose metrics call gave no sample
NoDataIdx ==
  {j \in RunningIdx : \E k \in FetchesOf(vm_list[j].name) : fetches[k].value = <<>>}

\* C9: a run that prints its report prints exactly one running-set outcome:
\* the table when a recommendation exists, else "no running VMs", "no
\* recommendations could be generated" (all running machines without data),
\* "partial data" (some but not all) or "all properly utilized"; the stopped
\* table is printed exactly when a stopped or deallocated machine exists.
C9_OneRunningOutcome ==
  Reported =>
    /\ Cardinality(OutcomeSections) = 1
    /\ \A i \in OutcomeSections :
         /\ out[i].kind = "recommendations_table" <=> recommendations # <<>>
         /\ out[i].kind = "no_running_vms" <=> RunningIdx = {}
         /\ out[i].kind = "no_recommendations_could_be_generated" <=>
              (RunningIdx # {} /\ NoDataIdx = RunningIdx)
         /\ out[i].kind = "partial_data" <=>
              (recommendations = <<>> /\ NoDataIdx # {} /\ NoDataIdx # RunningIdx)
         /\ out[i].kind = "all_properly_utilized" <=>
              (recommendations = <<>> /\ RunningIdx # {} /\ NoDataIdx = {})
    /\ Cardinality(Sections("stopped_table")) =
         IF StoppedIdx # {} THEN 1 ELSE 0

C9_Witness ==
  /\ Reported
  /\ Cardinality(RunningIdx) = 2
  /\ Sections("no_recommendations_could_be_generated") # {}
  /\ Sections("stopped_table") # {}

\* C10: when generate_recommendations finishes, a running machine is in the
\* no-data list exactly when its metrics call gave no usable sample; such a
\* machine has no recommendation; the two lists are disjoint, together no
\* longer than the running list, both in inventory order; and exactly one
\* metrics call was made per running machine.
C10_NoDataList ==
  LoopDone =>
    /\ \A j \in RunningIdx :
         /\ Cardinality(FetchesOf(vm_list[j].name)) = 1
         /\ \A k \in FetchesOf(vm_list[j].name) :
              /\ vm_list[j].name \in Range(vms_without_data) <=>
                   (fetches[k].kind = "HttpResponseError" \/ fetches[k].usable = 0)
              /\ vm_list[j].name \in Range(vms_without_data) =>
                   RecsOf(vm_list[j].name) = {}
    /\ Len(fetches) = Cardinality(RunningIdx)
    /\ Range(vms_without_data) \cap
         {recommendations[i].name : i \in Idx(recommendations)} = {}
    /\ Len(recommendations) + Len(vms_without_data) <= Len(running_vms)
    /\ InInventoryOrder(vms_without_data)
    /\ InInventoryOrder([i \in Idx(recommendations) |-> recommendations[i].name])

C10_Witness ==
  /\ LoopDone
  /\ Len(vms_without_data) = 2
  /\ Len(recommendations) = 1
  /\ \E k \in Idx(fetches) : fetches[k].kind = "HttpResponseError"
  /\ \E k \in Idx(fetches) : fetches[k].kind = "ok" /\ fetches[k].usable = 0

====
